---- MODULE Spec2Model ----
(***************************************************************************)
(* Model of password-authentication-system.py: the PasswordAuthenticator   *)
(* class (user database, lockout, verification codes) and the three        *)
(* console flows register_user, authenticate and reset_password driven by  *)
(* main().  The program is single threaded; every flow blocks on console   *)
(* input, so a flow is cut into one action per input it reads, and the     *)
(* wall clock may advance between any two inputs.                          *)
(*                                                                         *)
(* Strings are tuples of one-character strings, so that len() and the      *)
(* regular expressions of the source can be computed.  None is the empty   *)
(* tuple.                                                                  *)
(***************************************************************************)
EXTENDS Integers, Sequences, FiniteSets, TLC

\* ------------------------------------------------------------ characters

Upper ==
    {"A","B","C","D","E","F","G","H","I","J","K","L","M",
     "N","O","P","Q","R","S","T","U","V","W","X","Y","Z"}

Lower ==
    {"a","b","c","d","e","f","g","h","i","j","k","l","m",
     "n","o","p","q","r","s","t","u","v","w","x","y","z"}

Digit == {"0","1","2","3","4","5","6","7","8","9"}

\* \w of the re module, on the characters the inputs below use
Word == Upper \cup Lower \cup Digit \cup {"_"}

None == <<>>

\* ------------------------------------------------- constants of the code

max_failed_attempts == 5

lockout_duration == 15

\* ---------------------------------------------------------------- bounds

\* resolution of the clock: datetime.now() is finer than the one-second
\* resolution of the "%Y-%m-%d %H:%M:%S" strings
TicksPerSecond == 2

\* horizon of the clock, in seconds
MaxSeconds == 900

\* ------------------------------------------------------------------ time

\* timedelta(minutes=m), in ticks
timedelta(minutes) == minutes * 60 * TicksPerSecond

\* t.strftime("%Y-%m-%d %H:%M:%S"): the fraction of the second is dropped;
\* the string is represented by the one-element tuple of its whole seconds
strftime(t) == <<t \div TicksPerSecond>>

\* datetime.strptime(s, "%Y-%m-%d %H:%M:%S"), in ticks
strptime(s) == s[1] * TicksPerSecond

\* the waits the operator may take between two inputs, in ticks: one second
\* less than the lockout, and the lockout itself
Delays ==
    {timedelta(lockout_duration) - TicksPerSecond, timedelta(lockout_duration)}

\* --------------------------------------------------------------- inputs

user1 == <<"u","s","e","r","1">>

admin == <<"a","d","m","i","n">>

alice01 == <<"a","l","i","c","e","0","1">>

user1_email ==
    <<"u","s","e","r","1","@","e","x","a","m","p","l","e",".","c","o","m">>

admin_email ==
    <<"a","d","m","i","n","@","e","x","a","m","p","l","e",".","c","o","m">>

Password123 == <<"P","a","s","s","w","o","r","d","1","2","3">>

Admin123456 == <<"A","d","m","i","n","1","2","3","4","5","6">>

Passw0rd == <<"P","a","s","s","w","0","r","d">>

\* what is typed at a username prompt of register_user: a free name, a taken
\* one, a short one and one with a forbidden character
RegisterNames ==
    {alice01, user1, <<"b","o","b">>, <<"a","l","!","c","e">>}

\* what is typed at the username prompt of authenticate and reset_password
\* (alice01 is unknown until it is registered; admin is never named)
LoginNames == {user1, alice01}

\* what is typed at the email prompt
EmailInputs == {<<"a","@","x",".","c","o","m">>, <<"a","@","x">>}

\* what is typed at the password prompt of authenticate
LoginPasswords == {Password123, Passw0rd}

\* what is typed at a new-password prompt: two passwords the policy accepts
\* and one breaking each rule alone
NewPasswords ==
    {Passw0rd, Password123,
     <<"P","a","s","s","w","0","r">>,
     <<"p","a","s","s","w","0","r","d">>,
     <<"P","A","S","S","W","0","R","D">>,
     <<"P","a","s","s","w","o","r","d">>}

\* what is typed at the password prompt of register_user
RegisterPasswords == NewPasswords \ {Password123}

\* what is typed at a confirmation prompt
ConfirmInputs == {Passw0rd, Password123}

\* the salts bcrypt.gensalt() draws in this model (nothing reads a salt but
\* checkpw, which hashes under the salt stored in the hash)
Salts == {"salt1"}

\* the digits random.randint(0, 9) draws in this model
RandomDigits == {3, 8}

\* what is typed at the menu prompt
Choices == {"1", "2", "3", "4", "9"}

\* what the environment makes of a delivery: USE_EMAIL_SIMULATION set, the
\* sender not configured, the SMTP dialogue failing, or succeeding
DeliveryModes == {"simulation", "no_config", "smtp_error", "smtp_ok"}

\* --------------------------------------------------------- pure helpers

\* str(d) for a digit d
str(d) == <<"0","1","2","3","4","5","6","7","8","9">>[d + 1]

\* ''.join([str(random.randint(0, 9)) for _ in range(6)]) for one drawing
\* of the six digits
join(digits) == [i \in 1..6 |-> str(digits[i])]

\* the codes send_verification_code can generate in this model (the drawings
\* are kept to one digit repeated, to bound the model)
GeneratedCodes == {join([i \in 1..6 |-> d]) : d \in RandomDigits}

\* what is typed at a verification code prompt: the generated codes and a
\* string that equals none of them
CodeInputs == GeneratedCodes \cup {<<"3","3","3">>}

\* re.match(r'^[a-zA-Z0-9._]+$', username)
username_chars_ok(u) ==
    /\ Len(u) >= 1
    /\ \A i \in 1..Len(u) :
          u[i] \in Upper \cup Lower \cup Digit \cup {".", "_"}

\* re.match(r'^[\w\.-]+@[\w\.-]+\.\w+$', email): some "@" at position i and
\* some "." at position j split the string into three non-empty runs
email_format_ok(e) ==
    \E i \in 1..Len(e) : \E j \in 1..Len(e) :
        /\ 1 < i /\ i + 1 < j /\ j < Len(e)
        /\ e[i] = "@"
        /\ e[j] = "."
        /\ \A k \in 1..(i - 1) : e[k] \in Word \cup {".", "-"}
        /\ \A k \in (i + 1)..(j - 1) : e[k] \in Word \cup {".", "-"}
        /\ \A k \in (j + 1)..Len(e) : e[k] \in Word

\* register_user, the checks of the password loop in the order of the code:
\* the message printed, or "ok"
register_password_check(password) ==
    IF Len(password) < 8 THEN "Password too short!"
    ELSE IF ~ \E i \in 1..Len(password) : password[i] \in Upper
        THEN "Password must contain at least one uppercase letter!"
    ELSE IF ~ \E i \in 1..Len(password) : password[i] \in Lower
        THEN "Password must contain at least one lowercase letter!"
    ELSE IF ~ \E i \in 1..Len(password) : password[i] \in Digit
        THEN "Password must contain at least one number!"
    ELSE "ok"

\* the password loop of reset_password with a minimum length of 7
reset_password_check_seven(new_password) ==
    IF Len(new_password) < 7 THEN "Password too short!"
    ELSE IF ~ \E i \in 1..Len(new_password) : new_password[i] \in Upper
        THEN "Password must contain at least one uppercase letter!"
    ELSE IF ~ \E i \in 1..Len(new_password) : new_password[i] \in Lower
        THEN "Password must contain at least one lowercase letter!"
    ELSE IF ~ \E i \in 1..Len(new_password) : new_password[i] \in Digit
        THEN "Password must contain at least one number!"
    ELSE "ok"

\* reset_password, the checks of the password loop in the order of the code:
\* the message printed, or "ok"
reset_password_check(new_password) ==
    IF Len(new_password) < 8 THEN "Password too short!"
    ELSE IF ~ \E i \in 1..Len(new_password) : new_password[i] \in Upper
        THEN "Password must contain at least one uppercase letter!"
    ELSE IF ~ \E i \in 1..Len(new_password) : new_password[i] \in Lower
        THEN "Password must contain at least one lowercase letter!"
    ELSE IF ~ \E i \in 1..Len(new_password) : new_password[i] \in Digit
        THEN "Password must contain at least one number!"
    ELSE "ok"

\* bcrypt.hashpw(password, salt): the salt is kept in the hash; the digest
\* is symbolic (it is one-to-one in salt and password)
hashpw(password, salt) == [salt |-> salt, digest |-> <<salt, password>>]

\* bcrypt.checkpw(password, hashed): hash again under the stored salt
checkpw(password, hashed) == hashpw(password, hashed.salt) = hashed

\* ---------------------------------------------------------------- state

VARIABLES
    database,           \* self.database: username -> user record
    db_file,            \* the content of user_database.json
    now,                \* datetime.now(), in ticks
    pc,                 \* the prompt main() or the running flow waits at
    username,           \* local of the running flow
    email,              \* local of the running flow
    verification_code,  \* local of the running flow
    attempt,            \* loop variable of the verification loops
    password_match,     \* local of authenticate
    checks,             \* history: comparisons made against verification_code
    consumed,           \* history: a comparison against verification_code matched
    delivery,           \* history: how and when the last code was sent
    snapshot,           \* history: self.database when the flow was entered
    outcome             \* history: flow, return value and message of the last return

vars ==
    <<database, db_file, now, pc, username, email, verification_code,
      attempt, password_match, checks, consumed, delivery, snapshot, outcome>>

locals == <<username, email, verification_code, attempt, password_match>>

\* no code has been sent since the menu
NoDelivery == [mode |-> "none", at |-> 0]

NoOutcome == [flow |-> "none", ret |-> FALSE, reason |-> "none", username |-> None]

Outcome(flow, ret, reason, u) ==
    [flow |-> flow, ret |-> ret, reason |-> reason, username |-> u]

\* the locals of a flow that has returned
Unbound ==
    /\ username' = None
    /\ email' = None
    /\ verification_code' = None
    /\ attempt' = 0
    /\ password_match' = FALSE

\* a flow returns ret to main(), which goes back to the menu prompt
Return(flow, ret, reason, u) ==
    /\ pc' = "menu"
    /\ outcome' = Outcome(flow, ret, reason, u)
    /\ Unbound
    /\ snapshot' = snapshot

\* self.database with the record of u replaced (or added)
Put(db, u, rec) ==
    [k \in DOMAIN db \cup {u} |-> IF k = u THEN rec ELSE db[k]]

\* ------------------------------------------------------------ the clock

\* a fraction of a second passes, within the current second
tick ==
    /\ pc \notin {"start", "exit"}
    /\ (now % TicksPerSecond) + 1 < TicksPerSecond
    /\ now' = now + 1
    /\ UNCHANGED <<database, db_file, pc, locals, checks, consumed, delivery,
                   snapshot, outcome>>

\* the operator waits d ticks at the prompt
wait(d) ==
    /\ pc \notin {"start", "exit"}
    /\ now + d <= MaxSeconds * TicksPerSecond
    /\ now' = now + d
    /\ UNCHANGED <<database, db_file, pc, locals, checks, consumed, delivery,
                   snapshot, outcome>>

\* ------------------------------------------------------ PasswordAuthenticator

\* __init__ with no user_database.json: load_database creates an empty one
Init ==
    /\ database = <<>>
    /\ db_file = <<>>
    /\ now = 0
    /\ pc = "start"
    /\ username = None
    /\ email = None
    /\ verification_code = None
    /\ attempt = 0
    /\ password_match = FALSE
    /\ checks = 0
    /\ consumed = FALSE
    /\ delivery = NoDelivery
    /\ snapshot = <<>>
    /\ outcome = NoOutcome

\* the record populate_demo_users and register_user create
new_user(password, salt, mail, t) ==
    [password_hash |-> hashpw(password, salt),
     email |-> mail,
     failed_attempts |-> 0,
     locked_until |-> None,
     registered_on |-> strftime(t)]

\* populate_demo_users, called by main() before the menu loop
populate_demo_users ==
    /\ pc = "start"
    /\ pc' = "menu"
    /\ IF DOMAIN database # {}
         THEN UNCHANGED <<database, db_file>>
         ELSE \E s1 \in Salts : \E s2 \in Salts :
                /\ database' =
                     Put(Put(database, user1,
                             new_user(Password123, s1, user1_email, now)),
                         admin, new_user(Admin123456, s2, admin_email, now))
                /\ db_file' = database'
    /\ UNCHANGED <<now, locals, checks, consumed, delivery, snapshot, outcome>>

\* the process is started again: __init__ loads user_database.json
load_database ==
    /\ pc = "exit"
    /\ pc' = "start"
    /\ database' = db_file
    /\ UNCHANGED <<db_file, now, locals, checks, consumed, delivery, snapshot, outcome>>

\* the menu loop of main(): the choice read, and the flow called
main(choice) ==
    /\ pc = "menu"
    /\ pc' = CASE choice = "1" -> "login_username"
               [] choice = "2" -> "register_username"
               [] choice = "3" -> "reset_username"
               [] choice = "4" -> "exit"
               [] OTHER -> "menu"
    /\ IF choice \in {"1", "2", "3", "4"}
         THEN /\ snapshot' = IF choice = "4" THEN <<>> ELSE database
              /\ outcome' = NoOutcome
              /\ checks' = 0
              /\ consumed' = FALSE
              /\ delivery' = NoDelivery
         ELSE UNCHANGED <<snapshot, outcome, checks, consumed, delivery>>
    /\ UNCHANGED <<database, db_file, now, locals>>

\* the comparison of the clock and the lock turned round
check_account_lockout_inverted(db, u, t) ==
    IF u \notin DOMAIN db
      THEN [locked |-> FALSE, database |-> db, saved |-> FALSE]
    ELSE IF db[u].locked_until # None
      THEN IF t > strptime(db[u].locked_until)
             THEN [locked |-> TRUE, database |-> db, saved |-> FALSE]
             ELSE [locked |-> FALSE,
                   database |-> Put(db, u, [db[u] EXCEPT
                                              !.failed_attempts = 0,
                                              !.locked_until = None]),
                   saved |-> TRUE]
    ELSE [locked |-> FALSE, database |-> db, saved |-> FALSE]

\* the account still locked at the very time of locked_until: <= for <
check_account_lockout_inclusive(db, u, t) ==
    IF u \notin DOMAIN db
      THEN [locked |-> FALSE, database |-> db, saved |-> FALSE]
    ELSE IF db[u].locked_until # None
      THEN IF t <= strptime(db[u].locked_until)
             THEN [locked |-> TRUE, database |-> db, saved |-> FALSE]
             ELSE [locked |-> FALSE,
                   database |-> Put(db, u, [db[u] EXCEPT
                                              !.failed_attempts = 0,
                                              !.locked_until = None]),
                   saved |-> TRUE]
    ELSE [locked |-> FALSE, database |-> db, saved |-> FALSE]

\* the expired lock cleared in memory, save_database not called
check_account_lockout_unsaved(db, u, t) ==
    IF u \notin DOMAIN db
      THEN [locked |-> FALSE, database |-> db, saved |-> FALSE]
    ELSE IF db[u].locked_until # None
      THEN IF t < strptime(db[u].locked_until)
             THEN [locked |-> TRUE, database |-> db, saved |-> FALSE]
             ELSE [locked |-> FALSE,
                   database |-> Put(db, u, [db[u] EXCEPT
                                              !.failed_attempts = 0,
                                              !.locked_until = None]),
                   saved |-> FALSE]
    ELSE [locked |-> FALSE, database |-> db, saved |-> FALSE]

\* a lock that never expires: the clock is not consulted
check_account_lockout_forever(db, u, t) ==
    IF u \notin DOMAIN db
      THEN [locked |-> FALSE, database |-> db, saved |-> FALSE]
    ELSE IF db[u].locked_until # None
      THEN [locked |-> TRUE, database |-> db, saved |-> FALSE]
    ELSE [locked |-> FALSE, database |-> db, saved |-> FALSE]

\* the expired lock cleared, the counter forgotten
check_account_lockout_keeps_counter(db, u, t) ==
    IF u \notin DOMAIN db
      THEN [locked |-> FALSE, database |-> db, saved |-> FALSE]
    ELSE IF db[u].locked_until # None
      THEN IF t < strptime(db[u].locked_until)
             THEN [locked |-> TRUE, database |-> db, saved |-> FALSE]
             ELSE [locked |-> FALSE,
                   database |-> Put(db, u, [db[u] EXCEPT
                                              !.locked_until = None]),
                   saved |-> TRUE]
    ELSE [locked |-> FALSE, database |-> db, saved |-> FALSE]

\* check_account_lockout(username) at time t: the value returned, the
\* database it leaves, and whether save_database was called
check_account_lockout(db, u, t) ==
    IF u \notin DOMAIN db
      THEN [locked |-> FALSE, database |-> db, saved |-> FALSE]
    ELSE IF db[u].locked_until # None
      THEN IF t < strptime(db[u].locked_until)
             THEN [locked |-> TRUE, database |-> db, saved |-> FALSE]
             ELSE [locked |-> FALSE,
                   database |-> Put(db, u, [db[u] EXCEPT
                                              !.failed_attempts = 0,
                                              !.locked_until = None]),
                   saved |-> TRUE]
    ELSE [locked |-> FALSE, database |-> db, saved |-> FALSE]

\* the fallback that prints the code and returns nothing
fallback_verification_silent(code) == None

\* _fallback_verification(code, recipient_email): the code is printed and
\* returned
fallback_verification(code) == code

\* send_verification_code(email): the code it returns, for the digits drawn
\* and the way the delivery went
send_verification_code(digits, mode) ==
    LET code == join(digits)
    IN  CASE mode = "simulation" -> code
          [] mode = "no_config" -> fallback_verification(code)
          [] mode = "smtp_error" -> fallback_verification(code)
          [] mode = "smtp_ok" -> code

\* a code is sent and the flow waits for it at prompt p
IssueCode(p) ==
    \E d \in RandomDigits : \E mode \in DeliveryModes :
        /\ verification_code' =
             send_verification_code([i \in 1..6 |-> d], mode)
        /\ attempt' = 0
        /\ checks' = 0
        /\ consumed' = FALSE
        /\ delivery' = [mode |-> mode, at |-> now]
        /\ pc' = p

\* ------------------------------------------------------------ authenticate

\* the lock set one failure late: > for >=
record_failure_late(user_data, t) ==
    LET failed == user_data.failed_attempts + 1
    IN  IF failed > max_failed_attempts
          THEN [user_data EXCEPT
                  !.failed_attempts = failed,
                  !.locked_until = strftime(t + timedelta(lockout_duration))]
          ELSE [user_data EXCEPT !.failed_attempts = failed]

\* the counter started anew when the account is locked
record_failure_restart(user_data, t) ==
    LET failed == user_data.failed_attempts + 1
    IN  IF failed >= max_failed_attempts
          THEN [user_data EXCEPT
                  !.failed_attempts = 0,
                  !.locked_until = strftime(t + timedelta(lockout_duration))]
          ELSE [user_data EXCEPT !.failed_attempts = failed]

\* authenticate, wrong password: the record after the failure at time t
record_failure(user_data, t) ==
    LET failed == user_data.failed_attempts + 1
    IN  IF failed >= max_failed_attempts
          THEN [user_data EXCEPT
                  !.failed_attempts = failed,
                  !.locked_until = strftime(t + timedelta(lockout_duration))]
          ELSE [user_data EXCEPT !.failed_attempts = failed]

\* the counter left as it was
record_success_noop(user_data) == user_data

\* authenticate, right password: the record after lines 279-280
record_success(user_data) == [user_data EXCEPT !.failed_attempts = 0]

\* authenticate, from the username prompt to the password prompt
authenticate_username(u) ==
    /\ pc = "login_username"
    /\ IF u \notin DOMAIN database
         THEN /\ Return("authenticate", FALSE, "UnknownUser", u)
              /\ UNCHANGED <<database, db_file>>
         ELSE LET r == check_account_lockout(database, u, now)
              IN  /\ database' = r.database
                  /\ db_file' = IF r.saved THEN r.database ELSE db_file
                  /\ IF r.locked
                       THEN Return("authenticate", FALSE, "Locked", u)
                       ELSE /\ pc' = "login_password"
                            /\ username' = u
                            /\ UNCHANGED <<email, verification_code, attempt,
                                           password_match, snapshot, outcome>>
    /\ UNCHANGED <<now, checks, consumed, delivery>>

\* authenticate, from the password prompt to the code prompt
authenticate_password(password) ==
    /\ pc = "login_password"
    /\ LET user_data == database[username]
           match == checkpw(password, user_data.password_hash)
       IN  IF ~ match
             THEN /\ database' =
                       Put(database, username, record_failure(user_data, now))
                  /\ db_file' = database'
                  /\ Return("authenticate", FALSE, "BadPassword", username)
                  /\ UNCHANGED <<checks, consumed, delivery>>
             ELSE /\ database' =
                       Put(database, username, record_success(user_data))
                  /\ db_file' = database'
                  /\ password_match' = match
                  /\ IssueCode("login_code")
                  /\ UNCHANGED <<username, email, snapshot, outcome>>
    /\ UNCHANGED now

\* a loop over range(4)
next_attempt_four(a) == a + 1 < 4

\* authenticate: whether the loop over range(3) has an iteration after `a`
next_attempt(a) == a + 1 < 3

\* the verification loop with the advertised 10 minutes enforced
authenticate_code_expiring(user_code) ==
    /\ pc = "login_code"
    /\ checks' = checks + 1
    /\ IF user_code = verification_code /\ now - delivery.at <= timedelta(10)
         THEN /\ consumed' = TRUE
              /\ Return("authenticate", TRUE, "Authenticated", username)
         ELSE /\ consumed' = consumed
              /\ IF next_attempt(attempt)
                   THEN /\ attempt' = attempt + 1
                        /\ UNCHANGED <<pc, username, email, verification_code,
                                       password_match, snapshot, outcome>>
                   ELSE Return("authenticate", FALSE, "BadCode", username)
    /\ UNCHANGED <<database, db_file, now, delivery>>

\* authenticate, one iteration of the verification loop
authenticate_code(user_code) ==
    /\ pc = "login_code"
    /\ checks' = checks + 1
    /\ IF user_code = verification_code
         THEN /\ consumed' = TRUE
              /\ Return("authenticate", TRUE, "Authenticated", username)
         ELSE /\ consumed' = consumed
              /\ IF next_attempt(attempt)
                   THEN /\ attempt' = attempt + 1
                        /\ UNCHANGED <<pc, username, email, verification_code,
                                       password_match, snapshot, outcome>>
                   ELSE Return("authenticate", FALSE, "BadCode", username)
    /\ UNCHANGED <<database, db_file, now, delivery>>

\* ----------------------------------------------------------- register_user

\* the username loop without its test for a taken name
register_username_taken(u) ==
    /\ pc = "register_username"
    /\ IF \/ Len(u) < 4
          \/ ~ username_chars_ok(u)
         THEN UNCHANGED <<pc, username>>
         ELSE /\ username' = u
              /\ pc' = "register_email"
    /\ UNCHANGED <<database, db_file, now, email, verification_code, attempt,
                   password_match, checks, consumed, delivery, snapshot, outcome>>

\* register_user, the username loop
register_username(u) ==
    /\ pc = "register_username"
    /\ IF \/ Len(u) < 4
          \/ ~ username_chars_ok(u)
          \/ u \in DOMAIN database
         THEN UNCHANGED <<pc, username>>
         ELSE /\ username' = u
              /\ pc' = "register_email"
    /\ UNCHANGED <<database, db_file, now, email, verification_code, attempt,
                   password_match, checks, consumed, delivery, snapshot, outcome>>

\* register_user, the email loop up to the first code prompt
register_email(e) ==
    /\ pc = "register_email"
    /\ IF ~ email_format_ok(e)
         THEN UNCHANGED <<pc, email, verification_code, attempt, checks,
                          consumed, delivery>>
         ELSE /\ email' = e
              /\ IssueCode("register_code")
    /\ UNCHANGED <<database, db_file, now, username, password_match, snapshot,
                   outcome>>

\* one attempt too many: 3 - attempt
attempts_left_three(a) == 3 - a

\* register_user, line 75
attempts_left(a) == 2 - a

\* the verification loop going back to the email prompt when the attempts
\* are used up: continue for return False
register_code_reprompt(user_code) ==
    /\ pc = "register_code"
    /\ checks' = checks + 1
    /\ IF user_code = verification_code
         THEN /\ consumed' = TRUE
              /\ pc' = "register_password"
              /\ UNCHANGED <<username, email, verification_code, attempt,
                             password_match, snapshot, outcome>>
         ELSE /\ consumed' = consumed
              /\ IF attempts_left(attempt) > 0
                   THEN /\ attempt' = attempt + 1
                        /\ UNCHANGED <<pc, username, email, verification_code,
                                       password_match, snapshot, outcome>>
                   ELSE /\ pc' = "register_email"
                        /\ verification_code' = None
                        /\ attempt' = 0
                        /\ UNCHANGED <<username, email, password_match,
                                       snapshot, outcome>>
    /\ UNCHANGED <<database, db_file, now, delivery>>

\* register_user, one iteration of the verification loop
register_code(user_code) ==
    /\ pc = "register_code"
    /\ checks' = checks + 1
    /\ IF user_code = verification_code
         THEN /\ consumed' = TRUE
              /\ pc' = "register_password"
              /\ UNCHANGED <<username, email, verification_code, attempt,
                             password_match, snapshot, outcome>>
         ELSE /\ consumed' = consumed
              /\ IF attempts_left(attempt) > 0
                   THEN /\ attempt' = attempt + 1
                        /\ UNCHANGED <<pc, username, email, verification_code,
                                       password_match, snapshot, outcome>>
                   ELSE Return("register_user", FALSE, "BadCode", username)
    /\ UNCHANGED <<database, db_file, now, delivery>>

\* register_user, the password loop and the creation of the record
register_password(password, confirm_password) ==
    /\ pc = "register_password"
    /\ IF \/ register_password_check(password) # "ok"
          \/ password # confirm_password
         THEN UNCHANGED <<database, db_file, pc, locals, snapshot, outcome>>
         ELSE \E salt \in Salts :
                /\ database' =
                     Put(database, username,
                         new_user(password, salt, email, now))
                /\ db_file' = database'
                /\ Return("register_user", TRUE, "Registered", username)
    /\ UNCHANGED <<now, checks, consumed, delivery>>

\* ---------------------------------------------------------- reset_password

\* reset_password without its lockout check
reset_username_unchecked(u) ==
    /\ pc = "reset_username"
    /\ IF u \notin DOMAIN database
         THEN /\ Return("reset_password", FALSE, "UnknownUser", u)
              /\ UNCHANGED <<checks, consumed, delivery>>
         ELSE /\ username' = u
              /\ email' = database[u].email
              /\ IssueCode("reset_code")
              /\ UNCHANGED <<password_match, snapshot, outcome>>
    /\ UNCHANGED <<database, db_file, now>>

\* reset_password, from the username prompt to the code prompt
reset_username(u) ==
    /\ pc = "reset_username"
    /\ IF u \notin DOMAIN database
         THEN /\ Return("reset_password", FALSE, "UnknownUser", u)
              /\ UNCHANGED <<database, db_file, checks, consumed, delivery>>
         ELSE LET r == check_account_lockout(database, u, now)
              IN  /\ database' = r.database
                  /\ db_file' = IF r.saved THEN r.database ELSE db_file
                  /\ IF r.locked
                       THEN /\ Return("reset_password", FALSE, "Locked", u)
                            /\ UNCHANGED <<checks, consumed, delivery>>
                       ELSE /\ username' = u
                            /\ email' = database[u].email
                            /\ IssueCode("reset_code")
                            /\ UNCHANGED <<password_match, snapshot, outcome>>
    /\ UNCHANGED now

\* a wrong code at reset_password counted as a failure of the account
reset_code_counting(user_code) ==
    /\ pc = "reset_code"
    /\ checks' = checks + 1
    /\ IF user_code # verification_code
         THEN /\ consumed' = consumed
              /\ database' =
                   Put(database, username,
                       record_failure(database[username], now))
              /\ db_file' = database'
              /\ Return("reset_password", FALSE, "BadCode", username)
         ELSE /\ consumed' = TRUE
              /\ pc' = "reset_new_password"
              /\ UNCHANGED <<database, db_file, username, email,
                             verification_code, attempt, password_match,
                             snapshot, outcome>>
    /\ UNCHANGED <<now, delivery>>

\* reset_password, the one comparison of the code
reset_code(user_code) ==
    /\ pc = "reset_code"
    /\ checks' = checks + 1
    /\ IF user_code # verification_code
         THEN /\ consumed' = consumed
              /\ Return("reset_password", FALSE, "BadCode", username)
         ELSE /\ consumed' = TRUE
              /\ pc' = "reset_new_password"
              /\ UNCHANGED <<username, email, verification_code, attempt,
                             password_match, snapshot, outcome>>
    /\ UNCHANGED <<database, db_file, now, delivery>>

\* the record made anew at the reset, as register_user makes it
updated_password_recreated(user_data, new_password, salt) ==
    new_user(new_password, salt, user_data.email, now)

\* the hash replaced, the counter and the lock forgotten
updated_password_only(user_data, new_password, salt) ==
    [user_data EXCEPT !.password_hash = hashpw(new_password, salt)]

\* reset_password, lines 345-350: the record after the reset
updated_password(user_data, new_password, salt) ==
    [user_data EXCEPT
       !.password_hash = hashpw(new_password, salt),
       !.failed_attempts = 0,
       !.locked_until = None]

\* reset_password, the password loop and the update of the record
reset_new_password(new_password, confirm_password) ==
    /\ pc = "reset_new_password"
    /\ IF \/ reset_password_check(new_password) # "ok"
          \/ new_password # confirm_password
         THEN UNCHANGED <<database, db_file, pc, locals, snapshot, outcome>>
         ELSE \E salt \in Salts :
                /\ database' =
                     Put(database, username,
                         updated_password(database[username], new_password,
                                          salt))
                /\ db_file' = database'
                /\ Return("reset_password", TRUE, "ResetDone", username)
    /\ UNCHANGED <<now, checks, consumed, delivery>>

\* ---------------------------------------------------------- specification

Next ==
    \/ tick
    \/ \E d \in Delays : wait(d)
    \/ populate_demo_users
    \/ load_database
    \/ \E choice \in Choices : main(choice)
    \/ \E u \in LoginNames : authenticate_username(u)
    \/ \E p \in LoginPasswords : authenticate_password(p)
    \/ \E c \in CodeInputs : authenticate_code(c)
    \/ \E u \in RegisterNames : register_username(u)
    \/ \E e \in EmailInputs : register_email(e)
    \/ \E c \in CodeInputs : register_code(c)
    \/ \E p \in RegisterPasswords : \E c \in ConfirmInputs :
          register_password(p, c)
    \/ \E u \in LoginNames : reset_username(u)
    \/ \E c \in CodeInputs : reset_code(c)
    \/ \E p \in NewPasswords : \E c \in ConfirmInputs :
          reset_new_password(p, c)

Spec == Init /\ [][Next]_vars

\* ------------------------------------------------------------------ claims

\* the prompts of the three flows
LoginPcs == {"login_username", "login_password", "login_code"}

RegisterPcs ==
    {"register_username", "register_email", "register_code",
     "register_password"}

ResetPcs == {"reset_username", "reset_code", "reset_new_password"}

CodePcs == {"login_code", "register_code", "reset_code"}

\* locked_until of rec is set and time t is before it
LockedAt(rec, t) ==
    rec.locked_until # None /\ t < strptime(rec.locked_until)

\* every step taken from the prompt p that reads an input (the clock stands)
Reads(p) == pc = p /\ now' = now

\* the username a step from a username prompt has read
Named(u) == username' = u \/ outcome'.username = u

\* C1: a wrong password at the password prompt of authenticate adds one to
\* failed_attempts; while the sum is 1 to 4 locked_until stays None; when it
\* is 5 locked_until is the timestamp of the failure's time plus 15 minutes
\* and failed_attempts stays 5.  (The timestamp is the "%Y-%m-%d %H:%M:%S"
\* string of that time.)
C1_FifthFailureLocks ==
    [][(Reads("login_password") /\ outcome'.reason = "BadPassword") =>
         LET before == database[username]
             after == database'[username]
         IN  /\ before.failed_attempts \in 0..4
             /\ before.locked_until = None
             /\ after.failed_attempts = before.failed_attempts + 1
             /\ after.password_hash = before.password_hash
             /\ IF after.failed_attempts \in 1..4
                  THEN after.locked_until = None
                  ELSE /\ after.failed_attempts = 5
                       /\ after.locked_until
                            = strftime(now + 15 * 60 * TicksPerSecond)
      ]_vars

\* C1 witness: the fifth failure, made within a second, has just locked user1
C1_Witness ==
    /\ pc = "menu"
    /\ outcome = Outcome("authenticate", FALSE, "BadPassword", user1)
    /\ snapshot[user1].failed_attempts = 4
    /\ snapshot[user1].locked_until = None
    /\ database[user1].failed_attempts = 5
    /\ now % TicksPerSecond # 0
    /\ database[user1].locked_until
         = strftime(now + 15 * 60 * TicksPerSecond)

\* C2: authenticate called for an account that is locked at that time is
\* rejected as Locked from the username prompt: the password prompt is not
\* reached, and the database and the file are left as they were.
C2_LockedRejectedUntouched ==
    [][\A u \in DOMAIN database :
          (Reads("login_username") /\ Named(u) /\ LockedAt(database[u], now))
            => /\ pc' = "menu"
               /\ outcome' = Outcome("authenticate", FALSE, "Locked", u)
               /\ password_match' = FALSE
               /\ database' = database
               /\ db_file' = db_file
      ]_vars

\* C2 witness: user1, locked with five failures, has been turned away
C2_Witness ==
    /\ pc = "menu"
    /\ outcome = Outcome("authenticate", FALSE, "Locked", user1)
    /\ LockedAt(database[user1], now)
    /\ database[user1].failed_attempts = 5
    /\ database = snapshot

\* C3: authenticate returns True exactly when it returns from the code
\* prompt on a matching code, which is reached only with the username in the
\* database, the account not locked, the password verified, and at most 3
\* comparisons against the code issued in this invocation; every other
\* return of authenticate is False.
C3_AuthenticatedOnlyIf ==
    [][(pc \in LoginPcs /\ pc' = "menu") =>
         /\ outcome'.flow = "authenticate"
         /\ outcome'.ret <=> outcome'.reason = "Authenticated"
         /\ outcome'.ret <=>
              /\ pc = "login_code"
              /\ username \in DOMAIN snapshot
              /\ username \in DOMAIN database
              /\ ~ LockedAt(database[username], now)
              /\ database[username].locked_until = None
              /\ password_match
              /\ verification_code \in GeneratedCodes
              /\ consumed' /\ ~ consumed
              /\ checks' \in 1..3
      ]_vars

\* C3 witness: authenticated on the third code attempt
C3_Witness ==
    /\ pc = "menu"
    /\ outcome = Outcome("authenticate", TRUE, "Authenticated", user1)
    /\ consumed
    /\ checks = 3

\* C4 as stated: at a flow boundary failed_attempts is nonzero only if
\* locked_until is absent or already passed.
C4_Original ==
    pc \in {"menu", "exit"} =>
      \A u \in DOMAIN database :
         database[u].failed_attempts > 0 => ~ LockedAt(database[u], now)

\* C4 as amended: at a flow boundary failed_attempts is 1 to 4 only if
\* locked_until is absent, and an account whose locked_until is set (in the
\* future or not) has failed_attempts = 5.
C4_Amended ==
    pc \in {"menu", "exit"} =>
      \A u \in DOMAIN database :
         /\ database[u].failed_attempts \in 0..5
         /\ database[u].failed_attempts \in 1..4
              => database[u].locked_until = None
         /\ database[u].locked_until # None
              => database[u].failed_attempts = 5

\* C4 witness: at the menu after some other flow, a locked account with its
\* counter at 5
C4_Witness ==
    /\ pc = "menu"
    /\ outcome.reason = "Registered"
    /\ LockedAt(database[user1], now)
    /\ database[user1].failed_attempts = 5

\* C5 as stated: in register_user, authenticate and reset_password alike, a
\* code that mismatches on the 1st or 2nd comparison does not end the flow:
\* the flow stays at its code prompt for another attempt.
C5_ThreeAttemptsEveryFlow ==
    [][(pc \in CodePcs /\ checks' = checks + 1 /\ ~ consumed' /\ checks' < 3)
         => pc' = pc
      ]_vars

\* C6: a comparison against the issued code is made only at a code prompt,
\* only while no comparison has matched and fewer than 3 have been made, and
\* leaves the code as it is; a flow comes to a code prompt only by issuing a
\* code then, with no code held from before.
C6_CodeSingleUseAndBounded ==
    [][/\ checks' # checks =>
            \/ checks' = 0
            \/ /\ checks' = checks + 1
               /\ pc \in CodePcs
               /\ ~ consumed
               /\ checks < 3
               /\ verification_code \in GeneratedCodes
               /\ verification_code' \in {verification_code, None}
       /\ (consumed' /\ ~ consumed) => (checks' = checks + 1 /\ checks' <= 3)
       /\ (pc' \in CodePcs /\ pc \notin CodePcs) =>
            /\ verification_code = None
            /\ verification_code' \in GeneratedCodes
            /\ checks' = 0
            /\ ~ consumed'
       /\ (pc' \in CodePcs /\ pc \in CodePcs) =>
            verification_code' = verification_code
       /\ pc' \in {"menu", "login_username", "register_username",
                   "reset_username"} => verification_code' = None
      ]_vars

\* C6 witness: register_user has matched its code and gone on to the
\* password prompt after two mismatches
C6_Witness ==
    /\ pc = "register_password"
    /\ consumed
    /\ checks = 3
    /\ verification_code \in GeneratedCodes

\* C7: while register_user runs the database is the one it was entered
\* with; a return of False leaves the database and the file so; a return of
\* True has added one record, under a username that was not there, with
\* failed_attempts 0 and locked_until None, and left every other record.
C7_RegisterAllOrNothing ==
    [][(pc \in RegisterPcs /\ now' = now) =>
         /\ database = snapshot
         /\ pc' # "menu" => database' = snapshot
         /\ (pc' = "menu" /\ ~ outcome'.ret) =>
              /\ outcome' = Outcome("register_user", FALSE, "BadCode", username)
              /\ pc = "register_code"
              /\ checks' = 3 /\ ~ consumed'
              /\ database' = snapshot
              /\ db_file' = db_file
              /\ username \notin DOMAIN database'
         /\ (pc' = "menu" /\ outcome'.ret) =>
              /\ outcome' = Outcome("register_user", TRUE, "Registered", username)
              /\ consumed
              /\ username \notin DOMAIN snapshot
              /\ DOMAIN database' = DOMAIN snapshot \cup {username}
              /\ \A u \in DOMAIN snapshot : database'[u] = snapshot[u]
              /\ database'[username].failed_attempts = 0
              /\ database'[username].locked_until = None
              /\ database'[username].email = email
              /\ db_file' = database'
      ]_vars

\* C7 witness: alice01 has been registered beside the two demo users
C7_Witness ==
    /\ pc = "menu"
    /\ outcome = Outcome("register_user", TRUE, "Registered", alice01)
    /\ DOMAIN snapshot = {user1, admin}
    /\ DOMAIN database = {user1, admin, alice01}
    /\ database[alice01].failed_attempts = 0
    /\ database[alice01].locked_until = None

\* C8: at the code prompt of authenticate the counter of the account is 0,
\* its lock is None and the file holds the database; no comparison of a code
\* changes the database or the file; the third mismatch returns False.
C8_BadCodeLeavesCounterZero ==
    [][Reads("login_code") =>
         /\ database[username].failed_attempts = 0
         /\ database[username].locked_until = None
         /\ db_file = database
         /\ database' = database
         /\ db_file' = db_file
         /\ (checks' = 3 /\ ~ consumed') =>
              /\ pc' = "menu"
              /\ outcome' = Outcome("authenticate", FALSE, "BadCode", username)
      ]_vars

\* C8 witness: user1 had 1 to 4 failures, gave the right password and three
\* wrong codes, and has a counter of 0
C8_Witness ==
    /\ pc = "menu"
    /\ outcome = Outcome("authenticate", FALSE, "BadCode", user1)
    /\ snapshot[user1].failed_attempts \in 1..4
    /\ checks = 3
    /\ database[user1].failed_attempts = 0
    /\ database[user1].locked_until = None
    /\ db_file = database

\* C9: reset_password called for an account that is locked at that time
\* returns False as Locked from the username prompt, with no code issued and
\* the database and the file as they were; called for a username that is not
\* in the database it returns False with no code issued.
C9_ResetLockedOrUnknown ==
    [][Reads("reset_username") =>
         /\ \A u \in DOMAIN database :
               (Named(u) /\ LockedAt(database[u], now)) =>
                 /\ pc' = "menu"
                 /\ outcome' = Outcome("reset_password", FALSE, "Locked", u)
                 /\ verification_code' = None
                 /\ database' = database
                 /\ db_file' = db_file
         /\ (outcome'.username # None
               /\ outcome'.username \notin DOMAIN database) =>
                 /\ pc' = "menu"
                 /\ outcome'.reason = "UnknownUser"
                 /\ ~ outcome'.ret
                 /\ verification_code' = None
                 /\ database' = database
         /\ verification_code' # None =>
               /\ username' \in DOMAIN database
               /\ ~ LockedAt(database[username'], now)
      ]_vars

\* C9 witness: the reset of locked user1 has been turned away
C9_Witness ==
    /\ pc = "menu"
    /\ outcome = Outcome("reset_password", FALSE, "Locked", user1)
    /\ LockedAt(database[user1], now)
    /\ verification_code = None
    /\ database = snapshot

\* every password typed in this model
Passwords == LoginPasswords \cup NewPasswords \cup {Admin123456}

\* C10 as stated: a reset that returns True leaves a hash of a password the
\* policy accepts, failed_attempts 0 and locked_until None, the new password
\* authenticates and no password that authenticated before does; a reset
\* that returns False on the code leaves the record as it was on entry.
C10_Original ==
    [][(pc \in ResetPcs /\ pc' = "menu" /\ outcome'.reason \in {"ResetDone", "BadCode"}) =>
         LET old == snapshot[username]
             new == database'[username]
         IN  IF outcome'.ret
               THEN /\ new.failed_attempts = 0
                    /\ new.locked_until = None
                    /\ \E p \in NewPasswords :
                          /\ reset_password_check(p) = "ok"
                          /\ checkpw(p, new.password_hash)
                    /\ \A q \in Passwords :
                          checkpw(q, old.password_hash)
                            => ~ checkpw(q, new.password_hash)
               ELSE new = old
      ]_vars

\* C10 as amended: a reset that returns True leaves the hash of one password
\* the policy accepts, which alone authenticates (the old password no longer
\* does unless the new one equals it), with failed_attempts 0 and
\* locked_until None, and every other record and field as on entry; a reset
\* that returns False on the code leaves the hash, and leaves failed_attempts
\* and locked_until as on entry unless the lock had expired, which the
\* lockout check at the start has then cleared.
C10_Amended ==
    [][(pc \in ResetPcs /\ pc' = "menu" /\ outcome'.reason \in {"ResetDone", "BadCode"}) =>
         LET old == snapshot[username]
             new == database'[username]
             cleared == [old EXCEPT !.failed_attempts = 0, !.locked_until = None]
         IN  /\ \A u \in DOMAIN snapshot \ {username} :
                   database'[u] = snapshot[u]
             /\ DOMAIN database' = DOMAIN snapshot
             /\ db_file' = database'
             /\ IF outcome'.ret
                  THEN /\ consumed
                       /\ \E p \in NewPasswords :
                             /\ reset_password_check(p) = "ok"
                             /\ \A q \in Passwords :
                                   checkpw(q, new.password_hash) <=> q = p
                             /\ new = [cleared EXCEPT
                                         !.password_hash = new.password_hash]
                  ELSE /\ new.password_hash = old.password_hash
                       /\ \/ new = old
                          \/ /\ old.locked_until # None
                             /\ ~ LockedAt(old, now)
                             /\ new = cleared
      ]_vars

\* C10 witness: user1, whose lock of five failures had expired, has reset the
\* password to another one
C10_Witness ==
    /\ pc = "menu"
    /\ outcome = Outcome("reset_password", TRUE, "ResetDone", user1)
    /\ snapshot[user1].failed_attempts = 5
    /\ snapshot[user1].locked_until # None
    /\ checkpw(Password123, snapshot[user1].password_hash)
    /\ checkpw(Passw0rd, database[user1].password_hash)
    /\ ~ checkpw(Password123, database[user1].password_hash)
    /\ database[user1].failed_attempts = 0
    /\ database[user1].locked_until = None

\* the username prompts, from which check_account_lockout is called
UsernamePcs == {"login_username", "reset_username"}

\* C11: the lockout check reports locked exactly when locked_until is set
\* and the time is before it.  While the clock advances no record and no
\* file changes.  The check of an account whose lock has passed reports not
\* locked, sets failed_attempts to 0 and locked_until to None and saves; the
\* check of an account with no lock, and of an unknown username, changes
\* nothing; a lock that is set is cleared by no other step.
C11_LazyExpiry ==
    [][/\ now' # now => (database' = database /\ db_file' = db_file)
       /\ \A u \in RegisterNames \cup LoginNames \cup {admin} :
             LET r == check_account_lockout(database, u, now)
             IN  IF u \in DOMAIN database
                   THEN r.locked <=> LockedAt(database[u], now)
                   ELSE ~ r.locked /\ r.database = database /\ ~ r.saved
       /\ \A u \in DOMAIN database :
             LET rec == database[u]
             IN  /\ (pc \in UsernamePcs /\ now' = now /\ Named(u)) =>
                      /\ (outcome'.reason = "Locked") <=> LockedAt(rec, now)
                      /\ LockedAt(rec, now) => pc' = "menu"
                      /\ (rec.locked_until # None /\ ~ LockedAt(rec, now)) =>
                           /\ pc' # "menu"
                           /\ database' =
                                Put(database, u,
                                    [rec EXCEPT !.failed_attempts = 0,
                                                !.locked_until = None])
                           /\ db_file' = database'
                      /\ rec.locked_until = None =>
                           (database' = database /\ db_file' = db_file)
                 /\ (rec.locked_until # None
                       /\ database'[u].locked_until = None) =>
                      (pc \in UsernamePcs /\ Named(u) /\ ~ LockedAt(rec, now))
      ]_vars

\* C11 witness: the lock of user1 passed while nothing changed, and the
\* check made by authenticate at the very time of locked_until has cleared
\* the counter and the lock and saved
C11_Witness ==
    /\ pc = "login_password"
    /\ username = user1
    /\ snapshot[user1].failed_attempts = 5
    /\ snapshot[user1].locked_until # None
    /\ now = strptime(snapshot[user1].locked_until)
    /\ database[user1].failed_attempts = 0
    /\ database[user1].locked_until = None
    /\ db_file = database

\* the prompts whose answer can make the flow send a code
SendingPcs == {"login_password", "register_email", "reset_username"}

\* C12: the way the code is delivered never changes a flow.  For the same
\* digits send_verification_code returns the same 6-digit code in simulation
\* mode, with no sender configured, when the SMTP delivery fails and when it
\* succeeds; and the step that sends the code always goes on to the code
\* prompt holding that code, with no return and no failure message, whatever
\* the delivery did.  No later step reads or changes the way it went.
\* (The codes of the four ways are compared once, at the first step.)
C12_DeliveryIndependent ==
    [][/\ \A d \in IF pc = "start" THEN RandomDigits ELSE {} :
          \A mode \in DeliveryModes :
            LET digits == [i \in 1..6 |-> d]
                code == send_verification_code(digits, mode)
            IN  /\ code = join(digits)
                /\ Len(code) = 6
                /\ \A i \in 1..6 : code[i] \in Digit
       /\ (pc \notin CodePcs /\ pc' \in CodePcs) =>
            /\ delivery = NoDelivery
            /\ delivery'.mode \in DeliveryModes
            /\ verification_code' \in GeneratedCodes
            /\ outcome' = NoOutcome
            /\ checks' = 0 /\ ~ consumed'
       /\ delivery' # delivery =>
            \/ pc \notin CodePcs /\ pc' \in CodePcs
            \/ pc = "menu" /\ delivery' = NoDelivery
       /\ (pc \in SendingPcs /\ now' = now /\ pc' \notin CodePcs) =>
            delivery' = NoDelivery
      ]_vars

\* a login authenticated with the code of a delivery that failed
C12_Witness ==
    /\ pc = "menu"
    /\ outcome.reason = "Authenticated"
    /\ outcome.ret
    /\ delivery.mode = "smtp_error"
    /\ consumed

\* C13: a verification code never expires.  The passing of time changes
\* nothing of a pending code, and in each flow the attempt that enters the
\* code that was issued is accepted whenever it is made, also more than the
\* advertised 10 minutes after the code was sent; an attempt is accepted
\* only if it enters that code.
C13_NoCodeExpiry ==
    [][/\ now' # now =>
            UNCHANGED <<pc, verification_code, attempt, checks, consumed,
                        delivery>>
       /\ pc \in CodePcs =>
            /\ verification_code \in CodeInputs
            /\ delivery.at <= now
            /\ attempt < 3
       /\ \A c \in CodeInputs :
            /\ authenticate_code(c) =>
                 ((c = verification_code) <=>
                    (consumed' /\ outcome'.reason = "Authenticated"))
            /\ register_code(c) =>
                 ((c = verification_code) <=>
                    (consumed' /\ pc' = "register_password"))
            /\ reset_code(c) =>
                 ((c = verification_code) <=>
                    (consumed' /\ pc' = "reset_new_password"))
      ]_vars

\* a login authenticated with a code entered more than 10 minutes after it
\* was sent, on the last attempt of the budget
C13_Witness ==
    /\ pc = "menu"
    /\ outcome.flow = "authenticate"
    /\ outcome.reason = "Authenticated"
    /\ consumed
    /\ checks = 3
    /\ now - delivery.at > timedelta(10)

\* the rules of the password policy a password breaks
Violations(p) ==
    {r \in {"TooShort", "MissingUppercase", "MissingLowercase", "MissingDigit"} :
        \/ r = "TooShort" /\ Len(p) < 8
        \/ r = "MissingUppercase" /\ \A i \in 1..Len(p) : p[i] \notin Upper
        \/ r = "MissingLowercase" /\ \A i \in 1..Len(p) : p[i] \notin Lower
        \/ r = "MissingDigit" /\ \A i \in 1..Len(p) : p[i] \notin Digit}

\* the message the flows print for a rule
Message(r) ==
    CASE r = "TooShort" -> "Password too short!"
      [] r = "MissingUppercase" ->
           "Password must contain at least one uppercase letter!"
      [] r = "MissingLowercase" ->
           "Password must contain at least one lowercase letter!"
      [] r = "MissingDigit" -> "Password must contain at least one number!"

\* the passwords typed in this model, and two that break several rules
PolicyInputs ==
    NewPasswords \cup RegisterPasswords \cup LoginPasswords
      \cup {<<"p","w">>, <<"1","2","3","4","5","6","7","8">>}

\* the prompts for a new password
PasswordPcs == {"register_password", "reset_new_password"}

\* C14: register_user and reset_password accept a password iff it has at
\* least 8 characters, an uppercase letter, a lowercase letter and a digit;
\* a password breaking exactly one rule is rejected with the message of
\* that rule; both flows give every password the same verdict; and a
\* password prompt stores a password only if it passes the policy and equals
\* its confirmation, and then the stored hash verifies that password.
\* (The verdicts of the two loops are compared once, at the first step.)
C14_PasswordPolicy ==
    [][/\ \A p \in IF pc = "start" THEN PolicyInputs ELSE {} :
            /\ (register_password_check(p) = "ok") <=> (Violations(p) = {})
            /\ (reset_password_check(p) = "ok") <=> (Violations(p) = {})
            /\ register_password_check(p) = reset_password_check(p)
            /\ \A r \in Violations(p) :
                 Violations(p) = {r} =>
                   /\ register_password_check(p) = Message(r)
                   /\ reset_password_check(p) = Message(r)
       /\ \A p \in IF pc = "register_password" THEN RegisterPasswords ELSE {} :
          \A c \in ConfirmInputs :
            register_password(p, c) =>
              IF Violations(p) = {} /\ p = c
                THEN /\ outcome'.reason = "Registered"
                     /\ checkpw(p, database'[username].password_hash)
                     /\ db_file' = database'
                ELSE /\ pc' = "register_password"
                     /\ database' = database /\ db_file' = db_file
       /\ \A p \in IF pc = "reset_new_password" THEN NewPasswords ELSE {} :
          \A c \in ConfirmInputs :
            reset_new_password(p, c) =>
              IF Violations(p) = {} /\ p = c
                THEN /\ outcome'.reason = "ResetDone"
                     /\ checkpw(p, database'[username].password_hash)
                     /\ db_file' = database'
                ELSE /\ pc' = "reset_new_password"
                     /\ database' = database /\ db_file' = db_file
       /\ (pc \in PasswordPcs /\ now' = now) =>
            \/ database' = database /\ db_file' = db_file /\ pc' = pc
            \/ \E p \in PolicyInputs :
                 /\ Violations(p) = {}
                 /\ p \in ConfirmInputs
                 /\ checkpw(p, database'[outcome'.username].password_hash)
      ]_vars

\* a password reset that stored a password the policy accepts, other than
\* the one the account had
C14_Witness ==
    /\ pc = "menu"
    /\ outcome.reason = "ResetDone"
    /\ outcome.username = user1
    /\ checkpw(Password123, snapshot[user1].password_hash)
    /\ checkpw(Passw0rd, database[user1].password_hash)
    /\ Violations(Passw0rd) = {}

\* C15: whenever a flow returns to the menu, user_database.json holds
\* exactly self.database; every step that changes a record, the lockout
\* check included, saves the database in the same step, on the paths that
\* succeed and on the paths that reject alike.
C15_SavedAtReturn ==
    [][/\ pc' = "menu" => db_file' = database'
       /\ database' # database => db_file' = database'
       /\ db_file' # db_file => db_file' = database'
      ]_vars

\* reset_password rejected for a wrong code after its lockout check cleared
\* an expired lock: the cleared record is in the file
C15_Witness ==
    /\ pc = "menu"
    /\ outcome.flow = "reset_password"
    /\ outcome.reason = "BadCode"
    /\ snapshot[user1].locked_until # None
    /\ database[user1].locked_until = None
    /\ database # snapshot
    /\ db_file = database

\* C16: no record is ever deleted and the set of usernames only grows; the
\* registered_on and email of a record never change; authenticate changes
\* only failed_attempts and locked_until, and reset_password only
\* password_hash, failed_attempts and locked_until, of the account named in
\* the invocation; register_user changes no record that exists; and a record
\* appears only for the name register_user was given (or for the demo users
\* before the menu).
C16_RecordLifecycle ==
    [][/\ DOMAIN database \subseteq DOMAIN database'
       /\ \A u \in DOMAIN database :
            /\ database'[u].registered_on = database[u].registered_on
            /\ database'[u].email = database[u].email
            /\ database'[u] # database[u] =>
                 /\ Named(u)
                 /\ \/ /\ pc \in LoginPcs
                       /\ database'[u].password_hash = database[u].password_hash
                    \/ pc \in ResetPcs
       /\ \A u \in DOMAIN database' \ DOMAIN database :
            \/ pc = "register_password" /\ Named(u)
            \/ pc = "start" /\ u \in {user1, admin}
      ]_vars

\* a reset that replaced the hash of user1 a second or more after the
\* record was created, with alice01 registered before and admin as it was
C16_Witness ==
    /\ pc = "menu"
    /\ outcome.reason = "ResetDone"
    /\ outcome.username = user1
    /\ alice01 \in DOMAIN database
    /\ database[user1].password_hash # snapshot[user1].password_hash
    /\ database[user1].registered_on = snapshot[user1].registered_on
    /\ strftime(now) # database[user1].registered_on
    /\ database[admin] = snapshot[admin]
    /\ database[alice01] = snapshot[alice01]

\* C17: a flow whose code attempts are used up returns False instead of
\* prompting again.  In register_user the third mismatch ends the flow with
\* no record, never going back to the email prompt; in reset_password the
\* mismatch ends the flow; and authenticate, entered at its username
\* prompt, reads one username, one password and at most 3 codes: each
\* answer at the username and password prompts leaves that prompt for good,
\* every code read is counted from 0, and the third one ends the flow.
C17_ExhaustionTerminates ==
    [][/\ Reads("register_code") =>
            /\ pc' \in {"register_code", "register_password", "menu"}
            /\ checks < 3 /\ checks' = checks + 1
            /\ (checks' = 3 /\ ~ consumed') =>
                 /\ pc' = "menu"
                 /\ outcome' = Outcome("register_user", FALSE, "BadCode", username)
                 /\ database' = snapshot
       /\ (Reads("reset_code") /\ ~ consumed') =>
            /\ pc' = "menu"
            /\ outcome' = Outcome("reset_password", FALSE, "BadCode", username)
       /\ (pc' \in LoginPcs /\ pc \notin LoginPcs) =>
            (pc = "menu" /\ pc' = "login_username")
       /\ Reads("login_username") => pc' \in {"login_password", "menu"}
       /\ Reads("login_password") =>
            /\ pc' \in {"login_code", "menu"}
            /\ pc' = "login_code" => checks' = 0
       /\ Reads("login_code") =>
            /\ pc' \in {"login_code", "menu"}
            /\ checks < 3 /\ checks' = checks + 1
            /\ checks' = 3 => pc' = "menu"
            /\ (pc' = "menu" /\ ~ consumed') =>
                 outcome' = Outcome("authenticate", FALSE, "BadCode", username)
      ]_vars

\* register_user has returned False after three wrong codes, with no record
\* for alice01
C17_Witness ==
    /\ pc = "menu"
    /\ outcome = Outcome("register_user", FALSE, "BadCode", alice01)
    /\ checks = 3
    /\ ~ consumed
    /\ alice01 \notin DOMAIN database
    /\ database = snapshot

\* C18: for every account failed_attempts is 0 to 5, and locked_until is
\* set if and only if failed_attempts is 5; at the password prompt of
\* authenticate, where a right password zeroes the counter and leaves
\* locked_until alone, the locked_until of the account is None already.
C18_CounterAndLock ==
    /\ \A u \in DOMAIN database :
          /\ database[u].failed_attempts \in 0..max_failed_attempts
          /\ (database[u].locked_until # None)
               <=> (database[u].failed_attempts = max_failed_attempts)
    /\ pc \in {"login_password", "login_code"} =>
          database[username].locked_until = None

\* at the menu: user1 with 5 failures and a lock that has passed, alice01
\* with 1 to 4 failures and no lock, admin with none
C18_Witness ==
    /\ pc = "menu"
    /\ alice01 \in DOMAIN database
    /\ database[user1].failed_attempts = 5
    /\ database[user1].locked_until # None
    /\ ~ LockedAt(database[user1], now)
    /\ database[alice01].failed_attempts \in 1..4
    /\ database[alice01].locked_until = None
    /\ database[admin].failed_attempts = 0

\* C19 as stated: a register_user or reset_password invocation that returns
\* False on the code leaves failed_attempts and locked_until of every
\* account as they were when it was entered.
C19_Original ==
    [][(pc \in {"register_code", "reset_code"} /\ pc' = "menu"
          /\ outcome'.reason = "BadCode") =>
         \A u \in DOMAIN snapshot :
            /\ database'[u].failed_attempts = snapshot[u].failed_attempts
            /\ database'[u].locked_until = snapshot[u].locked_until
      ]_vars

\* C19 as amended: no comparison of a code, right or wrong, changes the
\* database in any flow; a register_user or reset_password invocation that
\* returns False on the code leaves failed_attempts and locked_until of
\* every account as on entry, but for the account reset_password named when
\* its lock had expired, which the lockout check has cleared to 0 and None;
\* failed_attempts grows, and locked_until becomes set, only by a wrong
\* password at the password prompt of authenticate, for the account named.
C19_Amended ==
    [][/\ (pc \in CodePcs /\ now' = now) =>
            (database' = database /\ db_file' = db_file)
       /\ (pc \in {"register_code", "reset_code"} /\ pc' = "menu"
             /\ outcome'.reason = "BadCode") =>
            \A u \in DOMAIN snapshot :
               LET old == snapshot[u]
                   new == database'[u]
               IN  \/ /\ new.failed_attempts = old.failed_attempts
                      /\ new.locked_until = old.locked_until
                   \/ /\ pc = "reset_code"
                      /\ u = outcome'.username
                      /\ old.locked_until # None
                      /\ ~ LockedAt(old, now)
                      /\ new.failed_attempts = 0
                      /\ new.locked_until = None
       /\ \A u \in DOMAIN database :
            (\/ database'[u].failed_attempts > database[u].failed_attempts
             \/ database[u].locked_until = None
                  /\ database'[u].locked_until # None) =>
               /\ pc = "login_password"
               /\ outcome' = Outcome("authenticate", FALSE, "BadPassword", u)
      ]_vars

\* reset_password has failed on the code for user1, an unlocked account
\* with 4 failures counted: it still has 4 and no lock
C19_Witness ==
    /\ pc = "menu"
    /\ outcome = Outcome("reset_password", FALSE, "BadCode", user1)
    /\ ~ consumed
    /\ snapshot[user1].failed_attempts = 4
    /\ database[user1].failed_attempts = 4
    /\ database[user1].locked_until = None
    /\ database = snapshot

\* C20: a lockout is never permanent.  When the clock is at or past the
\* locked_until of an account, authenticate called for that account is not
\* rejected as Locked: it clears the lock and the counter and goes to the
\* password prompt; there the right password leads to the code prompt and
\* the code that was sent returns True (Authenticated), and a wrong password
\* is counted as failure number 1, with no lock set.
C20_LockoutNotPermanent ==
    [][/\ \A u \in DOMAIN database :
            (Reads("login_username") /\ Named(u)
               /\ database[u].locked_until # None
               /\ now >= strptime(database[u].locked_until)) =>
              /\ pc' = "login_password"
              /\ username' = u
              /\ database'[u].failed_attempts = 0
              /\ database'[u].locked_until = None
       /\ (pc \in {"login_password", "login_code"}
             /\ snapshot[username].locked_until # None) =>
            /\ now >= strptime(snapshot[username].locked_until)
            /\ database[username].failed_attempts = 0
            /\ database[username].locked_until = None
            /\ \A p \in LoginPasswords :
                 authenticate_password(p) =>
                   IF checkpw(p, database[username].password_hash)
                     THEN pc' = "login_code"
                     ELSE /\ outcome' = Outcome("authenticate", FALSE,
                                                "BadPassword", username)
                          /\ database'[username].failed_attempts = 1
                          /\ database'[username].locked_until = None
            /\ \A c \in CodeInputs :
                 (authenticate_code(c) /\ c = verification_code) =>
                   outcome' = Outcome("authenticate", TRUE, "Authenticated",
                                      username)
      ]_vars

\* user1, entered with 5 failures and a lock that had passed, has been
\* authenticated
C20_Witness ==
    /\ pc = "menu"
    /\ outcome = Outcome("authenticate", TRUE, "Authenticated", user1)
    /\ snapshot[user1].failed_attempts = 5
    /\ snapshot[user1].locked_until # None
    /\ now >= strptime(snapshot[user1].locked_until)
    /\ database[user1].failed_attempts = 0
    /\ database[user1].locked_until = None

====
